---- MODULE Spec2Model ----
(***************************************************************************)
(* Model of scripts/check_alltests.py: the allTests registry checker.      *)
(*                                                                         *)
(* A source line is a sequence of tokens.  A token is a record [k, v]: a   *)
(* run of whitespace (k = "ws"), a word matching \w+ (k = "word"), a       *)
(* punctuation mark (k = "punct") or a double-quoted string literal whose  *)
(* content is v (k = "str").  Words and marks inside a line are separated  *)
(* by single blanks, which are not written as tokens; leading and trailing *)
(* whitespace is.  The regular expressions and the substring tests of the  *)
(* script are computed on these tokens.                                    *)
(***************************************************************************)
EXTENDS Integers, Sequences, FiniteSets, TLC

VARIABLES
    root_exists,      \* Tests/SwiftZlibTests exists
    tree,             \* the files under the root, in traversal order: each a sequence of line names
    run,              \* 1 for the first run of the tool on the tree, 2 for the second
    first_output,     \* console output of the first run, once finished
    first_exit,       \* exit status of the first run, once finished
    pc,               \* position of main()
    test_files,       \* main: test_files (paths; a path is the file's position in tree)
    fi,               \* main: index of file_path in test_files
    classes,          \* main: classes extracted from the current file
    ci,               \* main: index of test_class in classes
    cur,              \* analyze_test_class: the record being filled in
    li,               \* analyze_test_class: index of the next line of the contents scan
    in_alltests,      \* analyze_test_class: in_alltests
    entered_at,       \* history: line at which in_alltests was first set (0: never)
    stopped_at,       \* history: line at which the contents scan hit its break (0: never)
    test_classes,     \* main: test_classes
    ki,               \* main: index of test_class in the reporting loop
    issues,           \* main: issues, the result of the last check_alltests_coverage call
    all_issues,       \* main: all_issues
    output,           \* lines printed so far
    exit_code         \* return value of main(), NoExit while running

vars == << root_exists, tree, run, first_output, first_exit, pc, test_files, fi,
           classes, ci, cur, li, in_alltests, entered_at, stopped_at,
           test_classes, ki, issues, all_issues, output, exit_code >>

----------------------------------------------------------------------------
(* Bounds *)

\* most lines after the class declaration in the single-file trees
MaxLines == 3
\* most files in the multi-file trees
MaxFiles == 2
\* most lines of a file in the multi-file trees
MaxMainLines == 2

NoExit == 0 - 1

----------------------------------------------------------------------------
(* Tokens and lines *)

WS == [k |-> "ws", v |-> " "]
W(v) == [k |-> "word", v |-> v]
P(v) == [k |-> "punct", v |-> v]
S(v) == [k |-> "str", v |-> v]

\* class FooTests : XCTestCase {
LClass == << W("class"), W("FooTests"), P(":"), W("XCTestCase"), P("{") >>
\*   final class BarTests : XCTestCase {
LClassFinal == << WS, W("final"), W("class"), W("BarTests"), P(":"), W("XCTestCase"), P("{") >>
\*   func testA() {
LFuncA == << WS, W("func"), W("testA"), P("("), P(")"), P("{") >>
\*   func testB() throws {
LFuncB == << WS, W("func"), W("testB"), P("("), P(")"), W("throws"), P("{") >>
\*   static var allTests = [
LRegOpen == << WS, W("static"), W("var"), W("allTests"), P("="), P("[") >>
\* static let allTests: [(String, (FooTests) -> () throws -> Void)] = [
LRegLet == << W("static"), W("let"), W("allTests"), P(":"), P("["), P("("), W("String"), P(","),
              P("("), W("FooTests"), P(")"), P("->"), P("("), P(")"), W("throws"), P("->"),
              W("Void"), P(")"), P("]"), P("="), P("[") >>
\*   static var allTests = [("testA", testA)]
LRegOne == << WS, W("static"), W("var"), W("allTests"), P("="), P("["), P("("), S("testA"),
              P(","), W("testA"), P(")"), P("]") >>
\*   static var allTests = [("testA", testA), ("testB", testB)]
LRegBoth == << WS, W("static"), W("var"), W("allTests"), P("="), P("["), P("("), S("testA"),
               P(","), W("testA"), P(")"), P(","), P("("), S("testB"), P(","), W("testB"),
               P(")"), P("]") >>
\*   static var allTests: [(String, (FooTests) -> () throws -> Void)] {
LRegTyped == << WS, W("static"), W("var"), W("allTests"), P(":"), P("["), P("("), W("String"),
                P(","), P("("), W("FooTests"), P(")"), P("->"), P("("), P(")"), W("throws"),
                P("->"), W("Void"), P(")"), P("]"), P("{") >>
\*   public static var allTests = [
LRegPublic == << WS, W("public"), W("static"), W("var"), W("allTests"), P("="), P("[") >>
\*     ("testA", testA),
LEntryA == << WS, P("("), S("testA"), P(","), W("testA"), P(")"), P(",") >>
\*     ("testB", testB), ("testZ", testZ)]
LEntryBZ == << WS, P("("), S("testB"), P(","), W("testB"), P(")"), P(","), P("("), S("testZ"),
               P(","), W("testZ"), P(")"), P("]"), WS >>
\*   ]
LClose == << WS, P("]") >>

\* words that match test\w+
TestWords == {"testA", "testB", "testZ"}

\* the text of the lines the files are made of, by name
Source ==
    [ Class |-> LClass, ClassFinal |-> LClassFinal, FuncA |-> LFuncA, FuncB |-> LFuncB,
      RegOpen |-> LRegOpen, RegLet |-> LRegLet, RegOne |-> LRegOne, RegBoth |-> LRegBoth,
      RegTyped |-> LRegTyped, RegPublic |-> LRegPublic, EntryA |-> LEntryA,
      EntryBZ |-> LEntryBZ, Close |-> LClose ]

\* lines a single-file tree draws from, after its class declaration
FileLines == { "ClassFinal", "FuncA", "FuncB", "RegOpen", "RegLet", "RegOne", "RegBoth",
               "RegTyped", "RegPublic", "EntryA", "EntryBZ", "Close" }
\* lines the files of a multi-file tree draw from
MainLines == { "ClassFinal", "FuncA", "RegOpen" }

\* content.split('\n') of a file: the text of its lines
FileText(file) == [ j \in 1..Len(file) |-> Source[file[j]] ]

SeqsUpTo(A, n) == UNION { [1..m -> A] : m \in 0..n }

----------------------------------------------------------------------------
(* str.strip(), regular expressions, substring tests *)

RECURSIVE LStrip(_)
LStrip(line) ==
    IF line # << >> /\ Head(line).k = "ws" THEN LStrip(Tail(line)) ELSE line

RECURSIVE RStrip(_)
RStrip(line) ==
    IF line # << >> /\ line[Len(line)].k = "ws"
    THEN RStrip(SubSeq(line, 1, Len(line) - 1))
    ELSE line

\* line.strip()
Strip(line) == RStrip(LStrip(line))

\* line.strip().endswith(']')
EndsWithBracket(line) ==
    LET t == Strip(line) IN t # << >> /\ t[Len(t)] = P("]")

\* 'x' in line, for the words and marks the script looks for
Contains(line, tok) == \E i \in 1..Len(line) : line[i] = tok

\* sub in line, for a run of tokens
ContainsRun(line, sub) ==
    \E i \in 1..(Len(line) - Len(sub) + 1) : SubSeq(line, i, i + Len(sub) - 1) = sub

\* position of the first ')' at or after position from, 0 if there is none
FirstCloseParen(t, from) ==
    IF \E j \in from..Len(t) : t[j] = P(")")
    THEN CHOOSE j \in from..Len(t) :
             /\ t[j] = P(")")
             /\ \A h \in from..(j - 1) : t[h] # P(")")
    ELSE 0

\* r'^\s*(?:final\s+)?class\s+(\w+)\s*:\s*XCTestCase', matched against line.strip():
\* the captured name, or "" when there is no match
ClassPattern(line) ==
    LET s == Strip(line)
        t == IF s # << >> /\ Head(s) = W("final") THEN Tail(s) ELSE s
    IN  IF /\ Len(t) >= 4
           /\ t[1] = W("class")
           /\ t[2].k = "word"
           /\ t[3] = P(":")
           /\ t[4] = W("XCTestCase")
        THEN t[2].v
        ELSE ""

\* r'^\s*static\s+(?:var|let)\s+allTests\s*[:=]'
AllTestsPattern1(line) ==
    LET t == LStrip(line)
    IN  /\ Len(t) >= 4
        /\ t[1] = W("static")
        /\ t[2] \in {W("var"), W("let")}
        /\ t[3] = W("allTests")
        /\ t[4] \in {P(":"), P("=")}

\* r'^\s*static\s+let\s+allTests\s*:\s*\[\(String,\s*\([^)]+\)\s*->\s*\(\)\s*throws\s*->\s*Void\)\]\s*='
AllTestsPattern2(line) ==
    LET t == LStrip(line)
        j == FirstCloseParen(t, 10)
    IN  /\ Len(t) >= 9
        /\ SubSeq(t, 1, 9) = << W("static"), W("let"), W("allTests"), P(":"), P("["), P("("),
                                W("String"), P(","), P("(") >>
        /\ j >= 11
        /\ Len(t) >= j + 9
        /\ SubSeq(t, j + 1, j + 9) = << P("->"), P("("), P(")"), W("throws"), P("->"),
                                        W("Void"), P(")"), P("]"), P("=") >>

\* for pattern in alltests_patterns: if re.search(pattern, line)
MatchesAllTestsPattern(line) == AllTestsPattern1(line) \/ AllTestsPattern2(line)

\* an optional keyword of the test-method pattern: (?:throws\s+)? or (?:async\s+)?
Opt(t, word) == IF t # << >> /\ Head(t) = W(word) THEN Tail(t) ELSE t

\* r'^\s*func\s+(test\w+)\s*\([^)]*\)\s*(?:throws\s+)?(?:async\s+)?(?:throws\s+)?(?:async\s+)?\s*\{':
\* the captured name, or "" when there is no match
TestMethodPattern(line) ==
    LET t == LStrip(line)
        j == FirstCloseParen(t, 4)
        rest == Opt(Opt(Opt(Opt(SubSeq(t, j + 1, Len(t)), "throws"), "async"), "throws"), "async")
    IN  IF /\ Len(t) >= 4
           /\ t[1] = W("func")
           /\ t[2].k = "word" /\ t[2].v \in TestWords
           /\ t[3] = P("(")
           /\ j >= 4
           /\ rest # << >> /\ Head(rest) = P("{")
        THEN t[2].v
        ELSE ""

\* re.search(r'"([^"]+)"', line): the content of the first quoted literal, or "" when none
FirstLiteral(line) ==
    IF \E i \in 1..Len(line) : line[i].k = "str"
    THEN line[CHOOSE i \in 1..Len(line) :
                  /\ line[i].k = "str"
                  /\ \A h \in 1..(i - 1) : line[h].k # "str"].v
    ELSE ""

\* 'static' in line and 'allTests' in line and '=' in line
EntersAllTests(line) ==
    /\ Contains(line, W("static"))
    /\ Contains(line, W("allTests"))
    /\ Contains(line, P("="))

----------------------------------------------------------------------------
(* TestClassInfo, extract_test_classes, analyze_test_class *)

\* alltests_signature = None
None == << >>

\* TestClassInfo.__init__
TestClassInfo(filename, class_name, line_number) ==
    [ filename |-> filename,
      class_name |-> class_name,
      line_number |-> line_number,
      has_alltests |-> FALSE,
      alltests_signature |-> None,
      test_methods |-> << >>,
      alltests_methods |-> << >> ]

\* extract_test_classes: the records of the first n lines of the file
RECURSIVE ExtractUpTo(_, _, _)
ExtractUpTo(file_path, lines, n) ==
    IF n = 0 THEN << >>
    ELSE LET before == ExtractUpTo(file_path, lines, n - 1)
             name == ClassPattern(lines[n])
         IN  IF name # "" THEN Append(before, TestClassInfo(file_path, name, n)) ELSE before

\* extract_test_classes(file_path)
ExtractTestClasses(file_path, lines) == ExtractUpTo(file_path, lines, Len(lines))

\* one iteration of the registry-detection loop, with the loop left at the first match
DetectLineFirstOnly(test_class, line) ==
    IF MatchesAllTestsPattern(line) /\ ~test_class.has_alltests
    THEN [test_class EXCEPT !.has_alltests = TRUE, !.alltests_signature = Strip(line)]
    ELSE test_class

\* one iteration of the registry-detection loop: the break leaves the loop over the
\* patterns only, so a later matching line assigns both fields again
DetectLine(test_class, line) ==
    IF MatchesAllTestsPattern(line)
    THEN [test_class EXCEPT !.has_alltests = TRUE, !.alltests_signature = Strip(line)]
    ELSE test_class

\* the registry-detection loop over the first n lines
RECURSIVE FindAllTests(_, _, _)
FindAllTests(test_class, lines, n) ==
    IF n = 0 THEN test_class
    ELSE DetectLine(FindAllTests(test_class, lines, n - 1), lines[n])

\* the test-method loop over the first n lines
RECURSIVE FindTestMethods(_, _, _)
FindTestMethods(test_class, lines, n) ==
    IF n = 0 THEN test_class
    ELSE LET before == FindTestMethods(test_class, lines, n - 1)
             method_name == TestMethodPattern(lines[n])
         IN  IF method_name # ""
             THEN [before EXCEPT !.test_methods = Append(@, method_name)]
             ELSE before

\* the lines analyze_test_class reads, with the file of the first path read instead
LinesOfFirstFile(files, file_path) == FileText(files[1])

\* the lines analyze_test_class reads: those of file_path
LinesOf(files, file_path) == FileText(files[file_path])

\* one iteration of the contents scan that captures every literal of the line
RECURSIVE AllLiterals(_)
AllLiterals(line) ==
    IF line = << >> THEN << >>
    ELSE IF Head(line).k = "str" THEN << Head(line).v >> \o AllLiterals(Tail(line))
    ELSE AllLiterals(Tail(line))

ScanStepAllLiterals(methods, inside, line) ==
    IF EntersAllTests(line)
    THEN [methods |-> methods, inside |-> TRUE, brk |-> FALSE]
    ELSE IF inside
    THEN [methods |-> methods \o AllLiterals(line), inside |-> TRUE, brk |-> EndsWithBracket(line)]
    ELSE [methods |-> methods, inside |-> FALSE, brk |-> FALSE]

\* one iteration of the contents scan: alltests_methods, in_alltests, and whether
\* the iteration ends in the break
ScanStep(methods, inside, line) ==
    IF EntersAllTests(line)
    THEN [methods |-> methods, inside |-> TRUE, brk |-> FALSE]
    ELSE IF inside
    THEN [methods |-> IF FirstLiteral(line) # "" THEN Append(methods, FirstLiteral(line))
                      ELSE methods,
          inside |-> TRUE,
          brk |-> EndsWithBracket(line)]
    ELSE [methods |-> methods, inside |-> FALSE, brk |-> FALSE]

----------------------------------------------------------------------------
(* check_alltests_coverage *)

\* a printed line or an issue string: its leading glyph, its fixed text, the numbers
\* and the names formatted into it
Text(glyph, text, nums, names) == [glyph |-> glyph, text |-> text, nums |-> nums, names |-> names]

Blocking == "cross"
Advisory == "warning"

MissingProperty == Text(Blocking, "Missing allTests property", << >>, << >>)
ConsiderStaticVar == Text(Advisory, "Consider using 'static var allTests' for consistency", << >>, << >>)
MissingMethods(names) == Text(Blocking, "Missing test methods in allTests", << >>, names)
ExtraMethods(names) == Text(Advisory, "Extra methods in allTests (may be intentional)", << >>, names)

\* set(seq)
ToSet(seq) == { seq[i] : i \in 1..Len(seq) }

\* the orders in which iterating a set of str can yield its members: the order follows
\* the hashes of the strings, which are salted anew in each process
Orders(set) ==
    { o \in [1..Cardinality(set) -> set] : \A i, j \in 1..Cardinality(set) : o[i] = o[j] => i = j }

\* set(test_methods) - set(alltests_methods), with the operands exchanged
MissingSetSwapped(test_class) == ToSet(test_class.alltests_methods) \ ToSet(test_class.test_methods)

\* set(test_class.test_methods) - set(test_class.alltests_methods)
MissingSet(test_class) == ToSet(test_class.test_methods) \ ToSet(test_class.alltests_methods)

\* set(test_class.alltests_methods) - set(test_class.test_methods)
ExtraSet(test_class) == ToSet(test_class.alltests_methods) \ ToSet(test_class.test_methods)

\* the checks after the has_alltests test
CoverageIssues(test_class, missing_order, extra_order) ==
    (IF ~ContainsRun(test_class.alltests_signature, << W("static"), W("var"), W("allTests") >>)
     THEN << ConsiderStaticVar >> ELSE << >>)
    \o (IF MissingSet(test_class) # {} THEN << MissingMethods(missing_order) >> ELSE << >>)
    \o (IF ExtraSet(test_class) # {} THEN << ExtraMethods(extra_order) >> ELSE << >>)

\* check_alltests_coverage without the return after the first issue
CheckNoEarlyReturn(test_class, missing_order, extra_order) ==
    (IF ~test_class.has_alltests THEN << MissingProperty >> ELSE << >>)
    \o CoverageIssues(test_class, missing_order, extra_order)

\* check_alltests_coverage(test_class); missing_order and extra_order are the orders
\* in which the two sets are iterated by ', '.join
CheckAllTestsCoverage(test_class, missing_order, extra_order) ==
    IF ~test_class.has_alltests
    THEN << MissingProperty >>
    ELSE CoverageIssues(test_class, missing_order, extra_order)

----------------------------------------------------------------------------
(* main *)

\* the test in main's "if not test_files", taken only when the root directory is missing
NoTestFilesRootOnly(files) == files = << >> /\ ~root_exists

\* main: not test_files
NoTestFiles(files) == files = << >>

\* main: the return value after the report loop
ExitStatus(found) == IF found = << >> THEN 0 ELSE 1

\* find_test_files: the paths found, in traversal order (rglob walks an unchanged tree
\* in the same order, the order of tree)
FoundFiles == IF root_exists THEN [i \in 1..Len(tree) |-> i] ELSE << >>

Banner == Text("search", "Checking allTests properties in test files...", << >>, << >>)
DirNotFound == Text(Blocking, "Tests/SwiftZlibTests directory not found", << >>, << >>)
NoFilesFound == Text(Blocking, "No test files found", << >>, << >>)
FoundLine(nclasses, nfiles) == Text("chart", "Found test classes in files", << nclasses, nfiles >>, << >>)
ClassLine(test_class) ==
    Text("folder", "class", << test_class.filename, test_class.line_number >>, << test_class.class_name >>)
AllProper == Text("check", "All test classes have proper allTests properties!", << >>, << >>)
FoundIssues(n) == Text(Blocking, "Found issues with allTests properties", << n >>, << >>)
Recommendations == Text("bulb", "Recommendations", << >>, << >>)

\* the file main is working on
file_path == test_files[fi]
lines == LinesOf(tree, file_path)

Fresh ==
    /\ pc = "start"
    /\ test_files = << >>
    /\ fi = 0
    /\ classes = << >>
    /\ ci = 0
    /\ cur = TestClassInfo(0, "", 0)
    /\ li = 0
    /\ in_alltests = FALSE
    /\ entered_at = 0
    /\ stopped_at = 0
    /\ test_classes = << >>
    /\ ki = 0
    /\ issues = << >>
    /\ all_issues = << >>
    /\ output = << >>
    /\ exit_code = NoExit

\* a file is the list content.split('\n') yields: at least one line
MainFiles == SeqsUpTo(MainLines, MaxMainLines) \ { << >> }

\* the tool is started on a tree of up to MaxFiles files, or without the root directory
Init ==
    /\ root_exists \in BOOLEAN
    /\ tree \in SeqsUpTo(MainFiles, MaxFiles)
    /\ ~root_exists => tree = << >>
    /\ run = 1
    /\ first_output = << >>
    /\ first_exit = NoExit
    /\ Fresh

\* the tool is started on a tree of at most one file (a class declaration and up to
\* MaxLines lines), or without the root directory
InitFile ==
    /\ root_exists \in BOOLEAN
    /\ \/ tree = << >>
       \/ \E body \in SeqsUpTo(FileLines, MaxLines) : tree = << << "Class" >> \o body >>
    /\ ~root_exists => tree = << >>
    /\ run = 1
    /\ first_output = << >>
    /\ first_exit = NoExit
    /\ Fresh

\* main, lines 140-145: no test files, the early return
MainNoTestFiles ==
    /\ pc = "start"
    /\ NoTestFiles(FoundFiles)
    /\ test_files' = FoundFiles
    /\ output' = << Banner >> \o (IF root_exists THEN << >> ELSE << DirNotFound >>) \o << NoFilesFound >>
    /\ exit_code' = 1
    /\ pc' = "done"
    /\ UNCHANGED << root_exists, tree, run, first_output, first_exit, fi, classes, ci, cur, li,
                    in_alltests, entered_at, stopped_at, test_classes, ki, issues, all_issues >>

\* main, lines 140-148: test files found
MainFindTestFiles ==
    /\ pc = "start"
    /\ ~NoTestFiles(FoundFiles)
    /\ test_files' = FoundFiles
    /\ output' = << Banner >>
    /\ all_issues' = << >>
    /\ test_classes' = << >>
    /\ fi' = 1
    /\ pc' = "extract"
    /\ UNCHANGED << root_exists, tree, run, first_output, first_exit, classes, ci, cur, li,
                    in_alltests, entered_at, stopped_at, ki, exit_code, issues >>

\* main, lines 150-151: classes = extract_test_classes(file_path)
ExtractClasses ==
    /\ pc = "extract"
    /\ fi <= Len(test_files)
    /\ classes' = ExtractTestClasses(file_path, lines)
    /\ IF classes' = << >>
       THEN /\ fi' = fi + 1
            /\ UNCHANGED << ci, pc >>
       ELSE /\ ci' = 1
            /\ pc' = "analyze"
            /\ UNCHANGED fi
    /\ UNCHANGED << root_exists, tree, run, first_output, first_exit, test_files, cur, li,
                    in_alltests, entered_at, stopped_at, test_classes, ki, issues, all_issues,
                    output, exit_code >>

\* analyze_test_class, lines 66-95: registry detection and test methods
AnalyzeTestClass ==
    /\ pc = "analyze"
    /\ cur' = FindTestMethods(FindAllTests(classes[ci], lines, Len(lines)), lines, Len(lines))
    /\ li' = 1
    /\ in_alltests' = FALSE
    /\ entered_at' = 0
    /\ stopped_at' = 0
    /\ pc' = IF cur'.has_alltests THEN "scan" ELSE "analyzed"
    /\ UNCHANGED << root_exists, tree, run, first_output, first_exit, test_files, fi, classes,
                    ci, test_classes, ki, issues, all_issues, output, exit_code >>

\* analyze_test_class, lines 96-110: one iteration of the contents scan
ScanLine ==
    /\ pc = "scan"
    /\ LET step == ScanStep(cur.alltests_methods, in_alltests, lines[li])
       IN  /\ cur' = [cur EXCEPT !.alltests_methods = step.methods]
           /\ in_alltests' = step.inside
           /\ entered_at' = IF step.inside /\ ~in_alltests THEN li ELSE entered_at
           /\ stopped_at' = IF step.brk THEN li ELSE stopped_at
           /\ pc' = IF step.brk \/ li = Len(lines) THEN "analyzed" ELSE "scan"
    /\ li' = li + 1
    /\ UNCHANGED << root_exists, tree, run, first_output, first_exit, test_files, fi, classes,
                    ci, test_classes, ki, issues, all_issues, output, exit_code >>

\* main, lines 152-154: test_classes.append(test_class), and on to the next class or file
AppendClass ==
    /\ pc = "analyzed"
    /\ test_classes' = Append(test_classes, cur)
    /\ IF ci < Len(classes)
       THEN /\ ci' = ci + 1
            /\ pc' = "analyze"
            /\ UNCHANGED fi
       ELSE /\ fi' = fi + 1
            /\ pc' = "extract"
            /\ UNCHANGED ci
    /\ UNCHANGED << root_exists, tree, run, first_output, first_exit, test_files, classes, cur,
                    li, in_alltests, entered_at, stopped_at, ki, issues, all_issues, output,
                    exit_code >>

\* main, line 156: the summary of what was found
PrintFound ==
    /\ pc = "extract"
    /\ fi > Len(test_files)
    /\ output' = Append(output, FoundLine(Len(test_classes), Len(test_files)))
    /\ ki' = 1
    /\ pc' = "check"
    /\ UNCHANGED << root_exists, tree, run, first_output, first_exit, test_files, fi, classes,
                    ci, cur, li, in_alltests, entered_at, stopped_at, test_classes, issues,
                    all_issues, exit_code >>

\* main, lines 158-164: check one class and print its issues
CheckClass ==
    /\ pc = "check"
    /\ ki <= Len(test_classes)
    /\ \E missing_order \in Orders(MissingSet(test_classes[ki])),
          extra_order \in Orders(ExtraSet(test_classes[ki])) :
          /\ issues' = CheckAllTestsCoverage(test_classes[ki], missing_order, extra_order)
          /\ output' = IF issues' # << >>
                        THEN output \o << ClassLine(test_classes[ki]) >> \o issues'
                        ELSE output
          /\ all_issues' = all_issues \o issues'
    /\ ki' = ki + 1
    /\ UNCHANGED << root_exists, tree, run, first_output, first_exit, pc, test_files, fi,
                    classes, ci, cur, li, in_alltests, entered_at, stopped_at, test_classes,
                    exit_code >>

\* main, lines 166-175: the final report and the return value
Finish ==
    /\ pc = "check"
    /\ ki > Len(test_classes)
    /\ output' = IF all_issues = << >>
                 THEN Append(output, AllProper)
                 ELSE output \o << FoundIssues(Len(all_issues)), Recommendations >>
    /\ exit_code' = ExitStatus(all_issues)
    /\ pc' = "done"
    /\ UNCHANGED << root_exists, tree, run, first_output, first_exit, test_files, fi, classes,
                    ci, cur, li, in_alltests, entered_at, stopped_at, test_classes, ki, issues,
                    all_issues >>

\* the tool is started a second time on the unchanged tree
Rerun ==
    /\ pc = "done"
    /\ run = 1
    /\ run' = 2
    /\ first_output' = output
    /\ first_exit' = exit_code
    /\ pc' = "start"
    /\ test_files' = << >>
    /\ fi' = 0
    /\ classes' = << >>
    /\ ci' = 0
    /\ cur' = TestClassInfo(0, "", 0)
    /\ li' = 0
    /\ in_alltests' = FALSE
    /\ entered_at' = 0
    /\ stopped_at' = 0
    /\ test_classes' = << >>
    /\ ki' = 0
    /\ issues' = << >>
    /\ all_issues' = << >>
    /\ output' = << >>
    /\ exit_code' = NoExit
    /\ UNCHANGED << root_exists, tree >>

Next ==
    \/ MainNoTestFiles
    \/ MainFindTestFiles
    \/ ExtractClasses
    \/ AnalyzeTestClass
    \/ ScanLine
    \/ AppendClass
    \/ PrintFound
    \/ CheckClass
    \/ Finish

NextTwice ==
    \/ Next
    \/ Rerun

\* one run on a tree of several files
Spec == Init /\ [][Next]_vars

\* one run on a tree of at most one file
SpecFile == InitFile /\ [][Next]_vars

\* two runs on an unchanged tree of at most one file
SpecTwice == InitFile /\ [][NextTwice]_vars

----------------------------------------------------------------------------
(* Properties *)

HasBlocking(found) == \E i \in 1..Len(found) : found[i].glyph = Blocking
HasIssue(found, issue) == \E i \in 1..Len(found) : found[i] = issue
WithText(found, text) == { i \in 1..Len(found) : found[i].text = text }
NoRepeats(seq) == \A i, j \in 1..Len(seq) : seq[i] = seq[j] => i = j

\* the class checked by the last check_alltests_coverage call
Checked == pc \in {"check", "done"} /\ ki > 1
checked_class == test_classes[ki - 1]

\* the lines matching a registry-declaration pattern
MatchingLines(ls) == { j \in 1..Len(ls) : MatchesAllTestsPattern(ls[j]) }
FirstOf(set) == CHOOSE j \in set : \A h \in set : j <= h
LastOf(set) == CHOOSE j \in set : \A h \in set : j >= h
PreferredStyle(line) == ContainsRun(Strip(line), << W("static"), W("var"), W("allTests") >>)

\* C1: a run that reaches the final report exits with a non-zero status if and only
\* if some issue of some record is blocking; a run whose issues are all advisory
\* exits with status 0.
C1_ExitNonZeroIffBlocking ==
    (pc = "done" /\ test_files # << >>) => (exit_code # 0 <=> HasBlocking(all_issues))

C3_OneLineRegistry ==
    pc = "done" =>
        /\ tree = << << "Class", "FuncA", "FuncB", "RegOne" >> >> =>
               /\ Len(test_classes) = 1
               /\ test_classes[1].test_methods = << "testA", "testB" >>
               /\ test_classes[1].alltests_methods = << "testA" >>
               /\ all_issues = << MissingMethods(<< "testB" >>) >>
               /\ exit_code = 1
        /\ tree = << << "Class", "FuncA", "FuncB", "RegBoth" >> >> =>
               /\ all_issues = << >>
               /\ exit_code = 0
        /\ \A i \in 1..Len(test_classes) :
               LET ls == FileText(tree[test_classes[i].filename])
               IN  \A j \in MatchingLines(ls) :
                       ToSet(AllLiterals(ls[j])) \subseteq ToSet(test_classes[i].alltests_methods)

\* C4: the second run on the unchanged tree prints what the first run printed,
\* the order of the names in the issues included, and returns the same exit code.
C4_SecondRunIdentical ==
    (run = 2 /\ pc = "done") => (output = first_output /\ exit_code = first_exit)

\* C5: for a record without registry, check_alltests_coverage returns exactly the one
\* blocking issue "missing allTests property"; and that issue never comes with another.
C5_MissingPropertyAlone ==
    Checked =>
        /\ ~checked_class.has_alltests => issues = << MissingProperty >>
        /\ HasIssue(issues, MissingProperty) =>
               (issues = << MissingProperty >> /\ ~checked_class.has_alltests)

C5_Witness ==
    /\ Checked
    /\ ~checked_class.has_alltests
    /\ checked_class.test_methods # << >>
    /\ issues = << MissingProperty >>

\* C6: for a record with a registry there is one blocking "missing" issue iff
\* testMethods - registryMethods is not empty, naming each member of the difference
\* once; one advisory "extra" issue iff registryMethods - testMethods is not empty,
\* naming each member once; and no blocking issue when the two sets are equal.
C6_CoverageIssues ==
    (Checked /\ checked_class.has_alltests) =>
        LET declared == ToSet(checked_class.test_methods)
            listed == ToSet(checked_class.alltests_methods)
            missing == WithText(issues, "Missing test methods in allTests")
            extra == WithText(issues, "Extra methods in allTests (may be intentional)")
        IN  /\ Cardinality(missing) = (IF declared \ listed # {} THEN 1 ELSE 0)
            /\ \A i \in missing :
                   /\ issues[i].glyph = Blocking
                   /\ ToSet(issues[i].names) = declared \ listed
                   /\ NoRepeats(issues[i].names)
            /\ Cardinality(extra) = (IF listed \ declared # {} THEN 1 ELSE 0)
            /\ \A i \in extra :
                   /\ issues[i].glyph = Advisory
                   /\ ToSet(issues[i].names) = listed \ declared
                   /\ NoRepeats(issues[i].names)
            /\ declared = listed => ~HasBlocking(issues)

C6_Witness ==
    /\ Checked
    /\ checked_class.has_alltests
    /\ ToSet(checked_class.test_methods) \ ToSet(checked_class.alltests_methods) # {}
    /\ ToSet(checked_class.alltests_methods) \ ToSet(checked_class.test_methods) # {}
    /\ Len(issues) = 2

\* C7 as stated: the signature a record holds after analysis is the trimmed text of
\* the first line matching a registry-declaration pattern, and that line decides the
\* signature-style advisory.
C7_SignatureOfFirstMatch ==
    Checked =>
        LET ls == FileText(tree[checked_class.filename])
            matching == MatchingLines(ls)
        IN  matching # {} =>
                /\ checked_class.alltests_signature = Strip(ls[FirstOf(matching)])
                /\ HasIssue(issues, ConsiderStaticVar) <=> ~PreferredStyle(ls[FirstOf(matching)])

\* C7 amended: has_alltests holds iff some line matches a registry-declaration
\* pattern; every matching line assigns the signature again, so the signature a record
\* holds after analysis is the trimmed text of the last matching line, and that line
\* decides the signature-style advisory.
C7_SignatureOfLastMatch ==
    Checked =>
        LET ls == FileText(tree[checked_class.filename])
            matching == MatchingLines(ls)
        IN  /\ checked_class.has_alltests <=> matching # {}
            /\ matching = {} => checked_class.alltests_signature = None
            /\ matching # {} =>
                /\ checked_class.alltests_signature = Strip(ls[LastOf(matching)])
                /\ HasIssue(issues, ConsiderStaticVar) <=> ~PreferredStyle(ls[LastOf(matching)])

C7_Witness ==
    /\ Checked
    /\ LET ls == FileText(tree[checked_class.filename])
           matching == MatchingLines(ls)
       IN  /\ Cardinality(matching) >= 2
           /\ PreferredStyle(ls[FirstOf(matching)])
           /\ ~PreferredStyle(ls[LastOf(matching)])
           /\ Strip(ls[FirstOf(matching)]) # ls[FirstOf(matching)]
    /\ HasIssue(issues, ConsiderStaticVar)

\* the first of the first n lines that holds 'static', 'allTests' and '=' (0: none)
EntryLine(ls, n) ==
    LET entering == { j \in 1..n : EntersAllTests(ls[j]) }
    IN  IF entering = {} THEN 0 ELSE FirstOf(entering)

\* the first line after the entry line, among the first n, whose trimmed text ends
\* with ']' (0: none)
ClosingLineAsStated(ls, n) ==
    LET closing == { j \in (EntryLine(ls, n) + 1)..n : EndsWithBracket(ls[j]) }
    IN  IF EntryLine(ls, n) = 0 \/ closing = {} THEN 0 ELSE FirstOf(closing)

\* the same, passing over the lines that hold 'static', 'allTests' and '='
ClosingLine(ls, n) ==
    LET closing == { j \in (EntryLine(ls, n) + 1)..n :
                         EndsWithBracket(ls[j]) /\ ~EntersAllTests(ls[j]) }
    IN  IF EntryLine(ls, n) = 0 \/ closing = {} THEN 0 ELSE FirstOf(closing)

\* the first literal of each of the lines a..b, in file order; a line that holds
\* 'static', 'allTests' and '=' counts only if entering is TRUE
RECURSIVE FirstLiterals(_, _, _, _)
FirstLiterals(ls, a, b, entering) ==
    IF a > b THEN << >>
    ELSE (IF FirstLiteral(ls[a]) # "" /\ (entering \/ ~EntersAllTests(ls[a]))
          THEN << FirstLiteral(ls[a]) >> ELSE << >>)
         \o FirstLiterals(ls, a + 1, b, entering)

\* the test-method names declared in the lines a..b, in file order
RECURSIVE DeclaredMethods(_, _, _)
DeclaredMethods(ls, a, b) ==
    IF a > b THEN << >>
    ELSE (IF TestMethodPattern(ls[a]) # "" THEN << TestMethodPattern(ls[a]) >> ELSE << >>)
         \o DeclaredMethods(ls, a + 1, b)

\* the registry names of a whole file
ListedMethods(ls) ==
    LET e == EntryLine(ls, Len(ls))
        c == ClosingLine(ls, Len(ls))
    IN  IF MatchingLines(ls) = {} \/ e = 0 THEN << >>
        ELSE FirstLiterals(ls, e + 1, IF c # 0 THEN c ELSE Len(ls), FALSE)

Analysis(r) == << r.has_alltests, r.alltests_signature, r.test_methods, r.alltests_methods >>

Scanning == pc \in {"scan", "analyzed"} /\ cur.has_alltests

C10_DetectionAndEntryAgree ==
    /\ (pc = "analyzed" /\ cur.has_alltests) =>
           /\ entered_at # 0
           /\ MatchesAllTestsPattern(lines[entered_at])
    /\ pc \in {"scan", "analyzed"} =>
           \A j \in 1..Len(lines) : MatchesAllTestsPattern(lines[j]) <=> EntersAllTests(lines[j])
    /\ Checked =>
           LET ls == FileText(tree[checked_class.filename])
               matching == MatchingLines(ls)
           IN  (/\ Cardinality(matching) = 1
                /\ ToSet(DeclaredMethods(ls, 1, Len(ls)))
                       \subseteq { FirstLiteral(ls[j]) : j \in (FirstOf(matching) + 1)..Len(ls) })
               => WithText(issues, "Missing test methods in allTests") = {}
====
